---- MODULE Spec2Model ----
(***************************************************************************)
(* TileExampleQueue of agent_bricks_service.py: a lock-protected mapping    *)
(* tile_id -> (manager, questions, tile_type, enqueue_time, attempt_count), *)
(* caller threads that run enqueue / start / stop, and the worker threads   *)
(* that run _process_loop.  Every statement that reads or writes shared     *)
(* state (self.queue, self.lock, self.running, self.thread) is one step.    *)
(***************************************************************************)
EXTENDS Integers, Sequences, FiniteSets, TLC

\* ---------------------------------------------------------------- bounds
\* calls of enqueue, start and stop made in one run: by the two caller threads
\* of Spec, by the one caller thread of LifeSpec
MaxCalls == 2
LifeCalls == 3
\* a call begins, and a worker begins a loop iteration while another worker
\* thread is alive, only while every queued entry is within CallWindow
\* attempts of the start (0) or of the end (Ceiling) of its life
CallWindow == 1
\* Spec: a worker begins a loop iteration only while every queued entry has
\* fewer than MaxAttempts attempts; a run with one enqueue, one live worker
\* and no call in progress is followed to the ceiling
MaxAttempts == 1
\* calls of get_tile_example_queue made in one run
MaxGets == 5
\* items in the payload of a batch-apply call
MaxItems == 3

\* ------------------------------------------------------ program constants
\* `if attempt_count >= 30`
Ceiling == 30

ONLINE == "ONLINE"

\* values a status accessor can return: the EndpointStatus values, None for
\* a tile that is not found, and a string that is no EndpointStatus value
StatusValues == {"ONLINE", "OFFLINE", "PROVISIONING", "NOT_READY", "None", "online"}

\* ------------------------------------------------------------ input sets
Callers == {"c1", "c2"}
WorkerSeq == <<"w1", "w2">>
Workers == {WorkerSeq[i] : i \in DOMAIN WorkerSeq}
TileIds == {"t1", "t2"}
\* (manager, questions, tile_type) triples given to enqueue
Requests == { <<"m1", "q1", "KA">>, <<"m2", "q2", "MAS">>, <<"m1", "q2", "GENIE">> }

\* threads that call get_tile_example_queue
Getters == {"g1", "g2", "g3"}

NoThread == "None"
Free == "free"

VARIABLES
  queue,     \* self.queue: the dict, as the sequence of its items in insertion order
  lock,      \* self.lock: Free or the thread that holds it
  running,   \* self.running
  thread,    \* self.thread: NoThread or the Thread object last created
  cpc,       \* caller thread -> the statement it is at
  carg,      \* caller thread -> arguments of the enqueue call it is in
  wpc,       \* worker thread -> the statement of _process_loop it is at
  items,     \* worker thread -> the part of items_to_process not yet finished
  log,       \* history: the enqueue insertions so far, in order
  nStart,    \* history: start() calls made directly by callers
  nStop,     \* history: stop() calls made
  polls,     \* history: tile_id -> status checks invoked for it
  incs,      \* history: tile_id -> attempt_count write-backs done for it
  applied,   \* history: the batch-apply invocations so far, in order
  failed,    \* history: enqueue_times for which the worker caught an exception
  ready,     \* history: enqueue_times for which a status check returned 'ONLINE'
  halted,    \* history: stop() has returned and no start()/enqueue() call began since
  resumed,   \* history: entries that were in the mapping when a worker thread was
             \* created while no other was alive, not polled since: their
             \* enqueue_time and the attempt_count they had
  instance,  \* _tile_example_queue: <<>> for None, <<k>> for the k-th object constructed
  queue_lock,\* _queue_lock: Free or the thread that holds it
  gpc,       \* thread in get_tile_example_queue -> the statement it is at
  made,      \* history: TileExampleQueue objects constructed so far
  returned,  \* history: the values get_tile_example_queue has returned
  gets,      \* history: calls of get_tile_example_queue begun
  bpc,       \* the batch-apply call under study: the statement it is at
  payload,   \* its questions argument: the kind of each item
  bres,      \* item -> what create_example_with_progress has given for it so far
  qpath,     \* the branch of _process_loop taken after the call
  mpc,       \* main() of deploy_resources.py: the statement it is at
  mlog       \* history: the messages main() has logged about the queue

\* one call of ka_add_examples_batch / mas_add_examples_batch and what follows it
batch == <<bpc, payload, bres, qpath>>

\* the module-level singleton and its history
single == <<instance, queue_lock, gpc, made, returned, gets>>

\* the main thread of the deployment script
deploy == <<mpc, mlog>>

vars == <<queue, lock, running, thread, cpc, carg, wpc, items,
          log, nStart, nStop, polls, incs, applied, failed, ready, halted, resumed,
          single, batch, deploy>>

shared == <<queue, lock, running, thread>>
hist == <<log, nStart, nStop, polls, incs, applied, failed, ready, halted, resumed>>

\* ------------------------------------------------------- the dict self.queue
Entry(id, m, q, t, at, n) ==
  [tile_id |-> id, manager |-> m, questions |-> q, tile_type |-> t,
   enqueue_time |-> at, attempt_count |-> n]

\* tile_id in self.queue
Has(q, id) == \E i \in DOMAIN q : q[i].tile_id = id

\* self.queue[tile_id]
Get(q, id) == q[CHOOSE i \in DOMAIN q : q[i].tile_id = id]

\* mutant of Put: the mapping is replaced by one that holds the new item alone
PutAlone(q, e) == <<e>>

\* self.queue[tile_id] = (...): an existing key keeps its place, a new key goes last
Put(q, e) ==
  IF Has(q, e.tile_id)
  THEN [i \in DOMAIN q |-> IF q[i].tile_id = e.tile_id THEN e ELSE q[i]]
  ELSE Append(q, e)

\* mutant of Del: the removal empties the mapping
DelAll(q, id) == <<>>

\* if tile_id in self.queue: del self.queue[tile_id]
Del(q, id) == SelectSeq(q, LAMBDA e : e.tile_id # id)

\* saturating history counter
Bump(n) == IF n > Ceiling THEN n ELSE n + 1

\* ------------------------------------------------------------------ Init
NoArg == [tile_id |-> "-", req |-> <<"-", "-", "-">>]

Init ==
  /\ queue = <<>>
  /\ lock = Free
  /\ running = FALSE
  /\ thread = NoThread
  /\ cpc = [c \in Callers |-> "idle"]
  /\ carg = [c \in Callers |-> NoArg]
  /\ wpc = [w \in Workers |-> "unborn"]
  /\ items = [w \in Workers |-> <<>>]
  /\ log = <<>>
  /\ nStart = 0
  /\ nStop = 0
  /\ polls = [id \in TileIds |-> 0]
  /\ incs = [id \in TileIds |-> 0]
  /\ applied = <<>>
  /\ failed = {}
  /\ ready = {}
  /\ halted = FALSE
  /\ resumed = {}
  /\ instance = <<>>
  /\ queue_lock = Free
  /\ gpc = [g \in Getters |-> "idle"]
  /\ made = 0
  /\ returned = {}
  /\ gets = 0
  /\ bpc = "idle"
  /\ payload = <<>>
  /\ bres = <<>>
  /\ qpath = "none"
  /\ mpc = "deploy"
  /\ mlog = {}

\* calls begun so far: enqueues (inserted, or holding the lock to insert),
\* direct starts and stops
CallsBegun ==
  Len(log) + Cardinality({c \in Callers : cpc[c] = "enq_insert"}) + nStart + nStop

\* every queued entry is near the start or the end of its life
InWindow ==
  \A i \in DOMAIN queue : \/ queue[i].attempt_count <= CallWindow
                           \/ queue[i].attempt_count >= Ceiling - CallWindow

\* the bound on when a caller thread may begin a call
CallAllowed(calls) == CallsBegun < calls /\ InWindow

\* --------------------------------------------------------------- enqueue
\* `with self.lock:` of enqueue: the caller enters enqueue and takes the lock
EnqueueAcquire(c, id, req, calls) ==
  /\ cpc[c] = "idle"
  /\ CallAllowed(calls)
  /\ lock = Free
  /\ lock' = c
  /\ cpc' = [cpc EXCEPT ![c] = "enq_insert"]
  /\ carg' = [carg EXCEPT ![c] = [tile_id |-> id, req |-> req]]
  /\ halted' = FALSE
  /\ UNCHANGED <<queue, running, thread, wpc, items,
                 log, nStart, nStop, polls, incs, applied, failed, ready, resumed, single, batch, deploy>>

\* self.queue[tile_id] = (manager, questions, tile_type, time.time(), 0), lock released
EnqueueInsert(c) ==
  /\ cpc[c] = "enq_insert"
  /\ lock = c
  /\ LET a == carg[c]
         e == Entry(a.tile_id, a.req[1], a.req[2], a.req[3], Len(log) + 1, 0)
     IN /\ queue' = Put(queue, e)
        /\ log' = Append(log, e)
        /\ polls' = [polls EXCEPT ![a.tile_id] = 0]
        /\ incs' = [incs EXCEPT ![a.tile_id] = 0]
        /\ resumed' = {r \in resumed : log[r.at].tile_id # a.tile_id}
  /\ lock' = Free
  /\ cpc' = [cpc EXCEPT ![c] = "enq_running"]
  /\ UNCHANGED <<running, thread, carg, wpc, items,
                 nStart, nStop, applied, failed, ready, halted, single, batch, deploy>>

\* `if not self.running: self.start()` of enqueue
EnqueueCheckRunning(c) ==
  /\ cpc[c] = "enq_running"
  /\ cpc' = [cpc EXCEPT ![c] = IF running THEN "idle" ELSE "start_check"]
  /\ carg' = [carg EXCEPT ![c] = NoArg]
  /\ UNCHANGED <<shared, wpc, items, hist, single, batch, deploy>>

\* ----------------------------------------------------------------- start
\* worker threads that are inside _process_loop
Alive == {w \in Workers : wpc[w] \notin {"unborn", "dead"}}

\* Thread objects created so far
Created == Cardinality({w \in Workers : wpc[w] # "unborn"})

\* a caller calls start()
StartCall(c, calls) ==
  /\ cpc[c] = "idle"
  /\ CallAllowed(calls)
  /\ nStart' = nStart + 1
  /\ cpc' = [cpc EXCEPT ![c] = "start_check"]
  /\ halted' = FALSE
  /\ UNCHANGED <<shared, carg, wpc, items, log, nStop, polls, incs, applied, failed, ready, resumed, single, batch, deploy>>

\* mutant of StartCheck: start() without its test of self.running
StartUnchecked(c) ==
  /\ cpc[c] = "start_check"
  /\ cpc' = [cpc EXCEPT ![c] = "start_set"]
  /\ UNCHANGED <<shared, carg, wpc, items, hist, single, batch, deploy>>

\* `if not self.running:` of start
StartCheck(c) ==
  /\ cpc[c] = "start_check"
  /\ cpc' = [cpc EXCEPT ![c] = IF running THEN "idle" ELSE "start_set"]
  /\ UNCHANGED <<shared, carg, wpc, items, hist, single, batch, deploy>>

\* self.running = True
StartSet(c) ==
  /\ cpc[c] = "start_set"
  /\ running' = TRUE
  /\ cpc' = [cpc EXCEPT ![c] = "start_thread"]
  /\ UNCHANGED <<queue, lock, thread, carg, wpc, items, hist, single, batch, deploy>>

\* self.thread = threading.Thread(target=self._process_loop, daemon=True); self.thread.start()
StartThread(c) ==
  /\ cpc[c] = "start_thread"
  /\ Created < Len(WorkerSeq)
  /\ LET w == WorkerSeq[Created + 1]
     IN /\ thread' = w
        /\ wpc' = [wpc EXCEPT ![w] = "top"]
  /\ cpc' = [cpc EXCEPT ![c] = "idle"]
  /\ resumed' = IF Alive = {} /\ nStop > 0
                THEN {[at |-> queue[i].enqueue_time, count |-> queue[i].attempt_count] :
                        i \in DOMAIN queue}
                ELSE {}
  /\ UNCHANGED <<queue, lock, running, carg, items,
                 log, nStart, nStop, polls, incs, applied, failed, ready, halted, single, batch, deploy>>

\* ------------------------------------------------------------------ stop
\* mutant of StopSet: stop() joins the thread without clearing self.running
StopWithoutFlag(c, calls) ==
  /\ cpc[c] = "idle"
  /\ CallAllowed(calls)
  /\ nStop' = nStop + 1
  /\ cpc' = [cpc EXCEPT ![c] = "stop_join"]
  /\ UNCHANGED <<shared, carg, wpc, items,
                 log, nStart, polls, incs, applied, failed, ready, halted, resumed, single, batch, deploy>>

\* mutant of StopSet: stop() also empties the mapping
StopAndClear(c, calls) ==
  /\ cpc[c] = "idle"
  /\ CallAllowed(calls)
  /\ nStop' = nStop + 1
  /\ running' = FALSE
  /\ queue' = <<>>
  /\ cpc' = [cpc EXCEPT ![c] = "stop_join"]
  /\ UNCHANGED <<lock, thread, carg, wpc, items,
                 log, nStart, polls, incs, applied, failed, ready, halted, resumed, single, batch, deploy>>

\* a caller calls stop(): self.running = False
StopSet(c, calls) ==
  /\ cpc[c] = "idle"
  /\ CallAllowed(calls)
  /\ nStop' = nStop + 1
  /\ running' = FALSE
  /\ cpc' = [cpc EXCEPT ![c] = "stop_join"]
  /\ UNCHANGED <<queue, lock, thread, carg, wpc, items,
                 log, nStart, polls, incs, applied, failed, ready, halted, resumed, single, batch, deploy>>

\* `if self.thread: self.thread.join(timeout=5)`: returns when the thread has
\* ended or when the 5 seconds are over, whichever comes first
StopJoin(c) ==
  /\ cpc[c] = "stop_join"
  /\ cpc' = [cpc EXCEPT ![c] = "idle"]
  /\ halted' = (\A d \in Callers \ {c} : cpc[d] = "idle")
  /\ UNCHANGED <<shared, carg, wpc, items, log, nStart, nStop, polls, incs, applied, failed, ready, resumed, single, batch, deploy>>

\* --------------------------------------------------------- _process_loop
\* mutant of CeilingReached: no attempt ceiling
CeilingNever(n) == FALSE

\* mutant of CeilingReached: the test written with > for >=
CeilingPassed(n) == n > Ceiling

\* mutant of CeilingReached: the test made one attempt early
CeilingBefore(n) == n >= Ceiling - 1

\* `if attempt_count >= 30:`
CeilingReached(n) == n >= Ceiling

\* mutant of IsReady: the status compared with the enum member EndpointStatus.ONLINE,
\* which no string equals, for its value
IsReadyEnumMember(s) == s = "EndpointStatus.ONLINE"

\* mutant of IsReady: the status compared without regard to case
IsReadyAnyCase(s) == s \in {"ONLINE", "online"}

\* `if status == EndpointStatus.ONLINE.value:`
IsReady(s) == s = ONLINE

\* mutant of KnownKind: `if tile_type == 'KA': ... else:` with the MAS calls in
\* the else branch, so that no tile type is unknown
KnownKindOrElse(t) == t \in {"KA", "MAS", "GENIE"}

\* `if tile_type == 'KA': ... elif tile_type == 'MAS': ...`
KnownKind(t) == t \in {"KA", "MAS"}

\* the tuple the worker writes back: its snapshot's fields, attempt_count + 1
Aged(e) == [e EXCEPT !.attempt_count = e.attempt_count + 1]

\* the statement after the current item of the for loop: the next item, or
\* the sleep before the next loop test
Advance(w) ==
  /\ items' = [items EXCEPT ![w] = Tail(items[w])]
  /\ wpc' = [wpc EXCEPT ![w] = IF Len(items[w]) > 1 THEN "item" ELSE "top"]

\* mutant of W_Top: the loop written `while True:`
W_TopForever(w, lim) ==
  /\ wpc[w] = "top"
  /\ wpc' = [wpc EXCEPT ![w] = "snap"]
  /\ UNCHANGED <<shared, cpc, carg, items, hist, single, batch, deploy>>

\* (after a cycle: `time.sleep(120)` is over;) `while self.running:`
\* lim bounds the attempts the run goes on to
W_Top(w, lim) ==
  /\ wpc[w] = "top"
  /\ running => /\ \/ \A i \in DOMAIN queue : queue[i].attempt_count < lim
                   \/ /\ Len(log) = 1
                      /\ Len(queue) = 1
                      /\ Cardinality(Alive) = 1
                      /\ \A c \in Callers : cpc[c] = "idle"
                /\ Cardinality(Alive) > 1 => InWindow
  /\ wpc' = [wpc EXCEPT ![w] = IF running THEN "snap" ELSE "dead"]
  /\ UNCHANGED <<shared, cpc, carg, items, hist, single, batch, deploy>>

\* `with self.lock:` around the snapshot
W_SnapAcquire(w) ==
  /\ wpc[w] = "snap"
  /\ lock = Free
  /\ lock' = w
  /\ wpc' = [wpc EXCEPT ![w] = "snap_locked"]
  /\ UNCHANGED <<queue, running, thread, cpc, carg, items, hist, single, batch, deploy>>

\* mutant of W_Snapshot: the for loop placed inside the `with self.lock:`
\* block of the snapshot
W_SnapshotHolding(w) ==
  /\ wpc[w] = "snap_locked"
  /\ lock = w
  /\ items' = [items EXCEPT ![w] = queue]
  /\ wpc' = [wpc EXCEPT ![w] = IF queue = <<>> THEN "top" ELSE "item"]
  /\ UNCHANGED <<queue, lock, running, thread, cpc, carg, hist, single, batch, deploy>>

\* items_to_process = list(self.queue.items()), lock released
W_Snapshot(w) ==
  /\ wpc[w] = "snap_locked"
  /\ lock = w
  /\ items' = [items EXCEPT ![w] = queue]
  /\ lock' = Free
  /\ wpc' = [wpc EXCEPT ![w] = IF queue = <<>> THEN "top" ELSE "item"]
  /\ UNCHANGED <<queue, running, thread, cpc, carg, hist, single, batch, deploy>>

\* next item of the for loop: the ceiling test, then `with self.lock:` of the
\* branch taken
W_ItemAcquire(w) ==
  /\ wpc[w] = "item"
  /\ lock = Free
  /\ lock' = w
  /\ wpc' = [wpc EXCEPT ![w] = IF CeilingReached(Head(items[w]).attempt_count)
                               THEN "ceil_locked" ELSE "inc_locked"]
  /\ UNCHANGED <<queue, running, thread, cpc, carg, items, hist, single, batch, deploy>>

\* ceiling branch: `if tile_id in self.queue: del self.queue[tile_id]`; continue
W_CeilingDel(w) ==
  /\ wpc[w] = "ceil_locked"
  /\ lock = w
  /\ queue' = Del(queue, Head(items[w]).tile_id)
  /\ lock' = Free
  /\ Advance(w)
  /\ UNCHANGED <<running, thread, cpc, carg, hist, single, batch, deploy>>

\* mutant of W_Increment: the write-back without its `if tile_id in self.queue`
W_IncrementUnguarded(w) ==
  /\ wpc[w] = "inc_locked"
  /\ lock = w
  /\ LET e == Head(items[w])
     IN /\ queue' = Put(queue, Aged(e))
        /\ incs' = [incs EXCEPT ![e.tile_id] = Bump(@)]
        /\ wpc' = [wpc EXCEPT ![w] = IF KnownKind(e.tile_type) THEN "status" ELSE "unknown"]
  /\ lock' = Free
  /\ UNCHANGED <<running, thread, cpc, carg, items,
                 log, nStart, nStop, polls, applied, failed, ready, halted, resumed, single, batch, deploy>>

\* mutant of W_Increment: the `with self.lock:` block is not left before the
\* status check, so the lock is held across the network call
W_IncrementHolding(w) ==
  /\ wpc[w] = "inc_locked"
  /\ lock = w
  /\ LET e == Head(items[w])
     IN /\ IF Has(queue, e.tile_id)
           THEN /\ queue' = Put(queue, Aged(e))
                /\ incs' = [incs EXCEPT ![e.tile_id] = Bump(@)]
           ELSE UNCHANGED <<queue, incs>>
        /\ wpc' = [wpc EXCEPT ![w] = IF KnownKind(e.tile_type) THEN "status" ELSE "unknown"]
  /\ UNCHANGED <<lock, running, thread, cpc, carg, items,
                 log, nStart, nStop, polls, applied, failed, ready, halted, resumed, single, batch, deploy>>

\* `if tile_id in self.queue: self.queue[tile_id] = (..., attempt_count + 1)`
W_Increment(w) ==
  /\ wpc[w] = "inc_locked"
  /\ lock = w
  /\ LET e == Head(items[w])
     IN /\ IF Has(queue, e.tile_id)
           THEN /\ queue' = Put(queue, Aged(e))
                /\ incs' = [incs EXCEPT ![e.tile_id] = Bump(@)]
           ELSE UNCHANGED <<queue, incs>>
        /\ wpc' = [wpc EXCEPT ![w] = IF KnownKind(e.tile_type) THEN "status" ELSE "unknown"]
  /\ lock' = Free
  /\ UNCHANGED <<running, thread, cpc, carg, items,
                 log, nStart, nStop, polls, applied, failed, ready, halted, resumed, single, batch, deploy>>

\* `if tile_type == 'KA': status = manager.ka_get_endpoint_status(tile_id)
\*  elif tile_type == 'MAS': status = manager.mas_get_endpoint_status(tile_id)`
StatusAccessor(t) ==
  IF t = "KA" THEN "ka_get_endpoint_status"
  ELSE IF t = "MAS" THEN "mas_get_endpoint_status"
  ELSE "none"

\* the status check a worker makes for the item e it has in hand: the
\* accessor, the manager it is called on and the tile id it is given
StatusCall(e) ==
  [fn |-> StatusAccessor(e.tile_type), manager |-> e.manager, tile_id |-> e.tile_id]

\* mutant of BatchApply: the KA function called for every tile type
BatchApplyKaOnly(t) == "ka_add_examples_batch"

\* `if tile_type == 'KA': created_examples = manager.ka_add_examples_batch(tile_id, questions)
\*  elif tile_type == 'MAS': created_examples = manager.mas_add_examples_batch(tile_id, questions)`
BatchApply(t) ==
  IF t = "KA" THEN "ka_add_examples_batch"
  ELSE IF t = "MAS" THEN "mas_add_examples_batch"
  ELSE "none"

\* manager.ka_get_endpoint_status(tile_id) / mas_get_endpoint_status(tile_id)
\* returns s
W_StatusReturn(w, s) ==
  /\ wpc[w] = "status"
  /\ LET e == Head(items[w])
     IN /\ polls' = [polls EXCEPT ![e.tile_id] = Bump(@)]
        /\ ready' = IF s = ONLINE THEN ready \cup {e.enqueue_time} ELSE ready
        /\ resumed' = {r \in resumed : r.at # e.enqueue_time}
        /\ IF IsReady(s)
           THEN /\ wpc' = [wpc EXCEPT ![w] = "apply"]
                /\ UNCHANGED items
           ELSE Advance(w)
  /\ UNCHANGED <<shared, cpc, carg, log, nStart, nStop, incs, applied, failed, halted, single, batch, deploy>>

\* the status accessor raises
W_StatusRaise(w) ==
  /\ wpc[w] = "status"
  /\ LET e == Head(items[w])
     IN /\ polls' = [polls EXCEPT ![e.tile_id] = Bump(@)]
        /\ failed' = failed \cup {e.enqueue_time}
        /\ resumed' = {r \in resumed : r.at # e.enqueue_time}
  /\ wpc' = [wpc EXCEPT ![w] = "exc"]
  /\ UNCHANGED <<shared, cpc, carg, items, log, nStart, nStop, incs, applied, ready, halted, single, batch, deploy>>

\* enqueue_time of the latest enqueue of id
LatestTime(id) ==
  LET S == {i \in DOMAIN log : log[i].tile_id = id}
  IN CHOOSE i \in S : \A j \in S : j <= i

\* what one batch-apply invocation is: the function called, the manager it is
\* called on, the tile and the questions it is given; with them the entry they
\* were taken from, and the latest enqueue of the tile at the time of the call
ApplyCall(e) == [fn |-> BatchApply(e.tile_type),
                 tile_id |-> e.tile_id, manager |-> e.manager, questions |-> e.questions,
                 tile_type |-> e.tile_type, enqueue_time |-> e.enqueue_time,
                 latest |-> log[LatestTime(e.tile_id)]]

\* manager.ka_add_examples_batch(tile_id, questions) /
\* mas_add_examples_batch(tile_id, questions) returns
W_ApplyReturn(w) ==
  /\ wpc[w] = "apply"
  /\ applied' = Append(applied, ApplyCall(Head(items[w])))
  /\ wpc' = [wpc EXCEPT ![w] = "succ"]
  /\ UNCHANGED <<shared, cpc, carg, items, log, nStart, nStop, polls, incs, failed, ready, halted, resumed, single, batch, deploy>>

\* the batch-apply raises
W_ApplyRaise(w) ==
  /\ wpc[w] = "apply"
  /\ applied' = Append(applied, ApplyCall(Head(items[w])))
  /\ failed' = failed \cup {Head(items[w]).enqueue_time}
  /\ wpc' = [wpc EXCEPT ![w] = "exc"]
  /\ UNCHANGED <<shared, cpc, carg, items, log, nStart, nStop, polls, incs, ready, halted, resumed, single, batch, deploy>>

\* `with self.lock:` of one of the three removals after the status dispatch
Acquire(w, from, to) ==
  /\ wpc[w] = from
  /\ lock = Free
  /\ lock' = w
  /\ wpc' = [wpc EXCEPT ![w] = to]
  /\ UNCHANGED <<queue, running, thread, cpc, carg, items, hist, single, batch, deploy>>

\* `if tile_id in self.queue: del self.queue[tile_id]`, lock released, next item
Remove(w, at) ==
  /\ wpc[w] = at
  /\ lock = w
  /\ queue' = Del(queue, Head(items[w]).tile_id)
  /\ lock' = Free
  /\ Advance(w)
  /\ UNCHANGED <<running, thread, cpc, carg, hist, single, batch, deploy>>

\* unknown tile type: log, remove, continue
W_UnknownAcquire(w) == Acquire(w, "unknown", "unk_locked")
W_UnknownDel(w) == Remove(w, "unk_locked")

\* remove from queue on success
W_SuccessAcquire(w) == Acquire(w, "succ", "succ_locked")
W_SuccessDel(w) == Remove(w, "succ_locked")

\* `except Exception`: remove from queue on failure
W_ExceptAcquire(w) == Acquire(w, "exc", "exc_locked")

\* mutant of W_ExceptDel: the handler logs the failure and leaves the entry
\* in the mapping for the next cycle
W_ExceptKeep(w) ==
  /\ wpc[w] = "exc_locked"
  /\ lock = w
  /\ lock' = Free
  /\ Advance(w)
  /\ UNCHANGED <<queue, running, thread, cpc, carg, hist, single, batch, deploy>>

\* mutant of W_ExceptDel: no try/except around one item: the exception leaves
\* the for loop and is caught by the handler of the whole cycle
W_ExceptAbort(w) ==
  /\ wpc[w] = "exc_locked"
  /\ lock = w
  /\ lock' = Free
  /\ items' = [items EXCEPT ![w] = <<>>]
  /\ wpc' = [wpc EXCEPT ![w] = "top"]
  /\ UNCHANGED <<queue, running, thread, cpc, carg, hist, single, batch, deploy>>

W_ExceptDel(w) == Remove(w, "exc_locked")

\* ------------------------------------------------------------------ Next
Step(CS, IDS, REQS, calls, lim) ==
  \/ \E c \in CS, id \in IDS, req \in REQS : EnqueueAcquire(c, id, req, calls)
  \/ \E c \in CS : EnqueueInsert(c)
  \/ \E c \in CS : EnqueueCheckRunning(c)
  \/ \E c \in CS : StartCall(c, calls)
  \/ \E c \in CS : StartCheck(c)
  \/ \E c \in CS : StartSet(c)
  \/ \E c \in CS : StartThread(c)
  \/ \E c \in CS : StopSet(c, calls)
  \/ \E c \in CS : StopJoin(c)
  \/ \E w \in Workers : W_Top(w, lim)
  \/ \E w \in Workers : W_SnapAcquire(w)
  \/ \E w \in Workers : W_Snapshot(w)
  \/ \E w \in Workers : W_ItemAcquire(w)
  \/ \E w \in Workers : W_CeilingDel(w)
  \/ \E w \in Workers : W_Increment(w)
  \/ \E w \in Workers, s \in StatusValues : W_StatusReturn(w, s)
  \/ \E w \in Workers : W_StatusRaise(w)
  \/ \E w \in Workers : W_ApplyReturn(w)
  \/ \E w \in Workers : W_ApplyRaise(w)
  \/ \E w \in Workers : W_UnknownAcquire(w)
  \/ \E w \in Workers : W_UnknownDel(w)
  \/ \E w \in Workers : W_SuccessAcquire(w)
  \/ \E w \in Workers : W_SuccessDel(w)
  \/ \E w \in Workers : W_ExceptAcquire(w)
  \/ \E w \in Workers : W_ExceptDel(w)

\* every interleaving of two caller threads and the worker threads, over the
\* first MaxAttempts attempts of the entries
Next == Step(Callers, TileIds, Requests, MaxCalls, MaxAttempts)

Spec == Init /\ [][Next]_vars

\* one caller thread and one tile, every entry followed to the end of its life
LifeRequests == { <<"m1", "q1", "KA">>, <<"m2", "q2", "GENIE">> }
LifeNext == Step({"c1"}, {"t1"}, LifeRequests, LifeCalls, Ceiling + 1)

LifeSpec == Init /\ [][LifeNext]_vars

\* the steps of worker thread w
WorkerNext(w, lim) ==
  \/ W_Top(w, lim)
  \/ W_SnapAcquire(w)
  \/ W_Snapshot(w)
  \/ W_ItemAcquire(w)
  \/ W_CeilingDel(w)
  \/ W_Increment(w)
  \/ \E s \in StatusValues : W_StatusReturn(w, s)
  \/ W_StatusRaise(w)
  \/ W_ApplyReturn(w)
  \/ W_ApplyRaise(w)
  \/ W_UnknownAcquire(w)
  \/ W_UnknownDel(w)
  \/ W_SuccessAcquire(w)
  \/ W_SuccessDel(w)
  \/ W_ExceptAcquire(w)
  \/ W_ExceptDel(w)

\* the steps of caller thread c inside a call it has begun
CallerGoesOn(c) ==
  \/ EnqueueInsert(c)
  \/ EnqueueCheckRunning(c)
  \/ StartCheck(c)
  \/ StartSet(c)
  \/ StartThread(c)
  \/ StopJoin(c)

\* LifeSpec with the scheduler's fairness: a thread that can take a step
\* takes it in the end (a sleep ends, a network call returns or raises, a
\* free lock is acquired)
FairLifeSpec ==
  /\ LifeSpec
  /\ \A w \in Workers : WF_vars(WorkerNext(w, Ceiling + 1))
  /\ WF_vars(CallerGoesOn("c1"))

\* the steps worker thread w takes while it holds the lock: each ends the
\* `with self.lock:` block it is in
LockedStep(w) ==
  \/ W_Snapshot(w)
  \/ W_CeilingDel(w)
  \/ W_Increment(w)
  \/ W_UnknownDel(w)
  \/ W_SuccessDel(w)
  \/ W_ExceptDel(w)

\* Spec with fairness for the caller threads and for the workers' steps under
\* the lock only: a status check or a batch-apply in flight need never return
BlockedSpec ==
  /\ Spec
  /\ \A c \in Callers : WF_vars(CallerGoesOn(c))
  /\ \A w \in Workers : WF_vars(LockedStep(w))

\* ------------------------------------------------- get_tile_example_queue
\* a thread calls get_tile_example_queue()
G_Call(g) ==
  /\ gpc[g] = "idle"
  /\ gets < MaxGets
  /\ gets' = gets + 1
  /\ gpc' = [gpc EXCEPT ![g] = "check"]
  /\ UNCHANGED <<shared, cpc, carg, wpc, items, hist, instance, queue_lock, made, returned, batch, deploy>>

\* `if _tile_example_queue is None:` outside the lock
G_FirstCheck(g) ==
  /\ gpc[g] = "check"
  /\ gpc' = [gpc EXCEPT ![g] = IF instance = <<>> THEN "acquire" ELSE "return"]
  /\ UNCHANGED <<shared, cpc, carg, wpc, items, hist, instance, queue_lock, made, returned, gets, batch, deploy>>

\* `with _queue_lock:`
G_Acquire(g) ==
  /\ gpc[g] = "acquire"
  /\ queue_lock = Free
  /\ queue_lock' = g
  /\ gpc' = [gpc EXCEPT ![g] = "recheck"]
  /\ UNCHANGED <<shared, cpc, carg, wpc, items, hist, instance, made, returned, gets, batch, deploy>>

\* mutant of G_SecondCheck: no second test under the lock
G_NoSecondCheck(g) ==
  /\ gpc[g] = "recheck"
  /\ gpc' = [gpc EXCEPT ![g] = "construct"]
  /\ UNCHANGED <<shared, cpc, carg, wpc, items, hist, instance, queue_lock, made, returned, gets, batch, deploy>>

\* `if _tile_example_queue is None:` under the lock
G_SecondCheck(g) ==
  /\ gpc[g] = "recheck"
  /\ gpc' = [gpc EXCEPT ![g] = IF instance = <<>> THEN "construct" ELSE "release"]
  /\ UNCHANGED <<shared, cpc, carg, wpc, items, hist, instance, queue_lock, made, returned, gets, batch, deploy>>

\* _tile_example_queue = TileExampleQueue()
G_Construct(g) ==
  /\ gpc[g] = "construct"
  /\ made' = made + 1
  /\ instance' = <<made + 1>>
  /\ gpc' = [gpc EXCEPT ![g] = "release"]
  /\ UNCHANGED <<shared, cpc, carg, wpc, items, hist, queue_lock, returned, gets, batch, deploy>>

\* end of the `with _queue_lock:` block
G_Release(g) ==
  /\ gpc[g] = "release"
  /\ queue_lock = g
  /\ queue_lock' = Free
  /\ gpc' = [gpc EXCEPT ![g] = "return"]
  /\ UNCHANGED <<shared, cpc, carg, wpc, items, hist, instance, made, returned, gets, batch, deploy>>

\* return _tile_example_queue
G_Return(g) ==
  /\ gpc[g] = "return"
  /\ returned' = returned \cup {instance}
  /\ gpc' = [gpc EXCEPT ![g] = "idle"]
  /\ UNCHANGED <<shared, cpc, carg, wpc, items, hist, instance, queue_lock, made, gets, batch, deploy>>

GetNext ==
  \/ \E g \in Getters : G_Call(g)
  \/ \E g \in Getters : G_FirstCheck(g)
  \/ \E g \in Getters : G_Acquire(g)
  \/ \E g \in Getters : G_SecondCheck(g)
  \/ \E g \in Getters : G_Construct(g)
  \/ \E g \in Getters : G_Release(g)
  \/ \E g \in Getters : G_Return(g)

\* every interleaving of MaxGets calls of get_tile_example_queue by the
\* threads of Getters
GetSpec == Init /\ [][GetNext]_vars

\* ------------------------------ ka_add_examples_batch / mas_add_examples_batch
\* what a payload item can be: a dict with a question text whose creation
\* request succeeds, one whose request fails, a dict without question text,
\* and a value that is no dict
ItemKinds == {"ok", "fails", "blank", "nodict"}

\* payloads of up to n items
Payloads(n) == UNION { [1..k -> ItemKinds] : k \in 0..n }

\* the worker, having seen 'ONLINE', calls the batch-apply with questions p
B_Call(p) ==
  /\ bpc = "idle"
  /\ qpath = "none"
  /\ payload' = p
  /\ bres' = [i \in DOMAIN p |-> "pending"]
  /\ bpc' = IF p = <<>> THEN "nopool" ELSE "pool"
  /\ UNCHANGED <<shared, cpc, carg, wpc, items, hist, single, deploy, qpath>>

\* max_workers = min(2, len(questions)) is 0 for an empty payload:
\* ThreadPoolExecutor(max_workers=0) raises ValueError
B_EmptyPool ==
  /\ bpc = "nopool"
  /\ bpc' = "raised"
  /\ UNCHANGED <<shared, cpc, carg, wpc, items, hist, single, deploy, payload, bres, qpath>>

\* create_example_with_progress(question_item): the example created, None for
\* an item without text, None after logging when ka/mas_create_example raised
\* (`except Exception: ... return None`); question_item.get raises for a
\* value that is no dict, outside the try
ItemResult(kind) ==
  CASE kind = "ok" -> "example"
    [] kind = "blank" -> "None"
    [] kind = "fails" -> "None"
    [] OTHER -> "raises"

\* one submitted task runs to its end in the pool
B_Item(i) ==
  /\ bpc = "pool"
  /\ i \in DOMAIN bres
  /\ bres[i] = "pending"
  /\ bres' = [bres EXCEPT ![i] = ItemResult(payload[i])]
  /\ UNCHANGED <<shared, cpc, carg, wpc, items, hist, single, deploy, bpc, payload, qpath>>

\* `for future in as_completed(...): result = future.result()`, the pool shut
\* down at the end of the with block: the call raises what a task raised,
\* else returns the examples created
B_Collect ==
  /\ bpc = "pool"
  /\ \A i \in DOMAIN bres : bres[i] # "pending"
  /\ bpc' = IF \E i \in DOMAIN bres : bres[i] = "raises" THEN "raised" ELSE "returned"
  /\ UNCHANGED <<shared, cpc, carg, wpc, items, hist, single, deploy, payload, bres, qpath>>

\* the call returned: the worker logs 'Successfully added ...' and removes the entry
Q_Success ==
  /\ bpc = "returned"
  /\ qpath = "none"
  /\ qpath' = "success"
  /\ UNCHANGED <<shared, cpc, carg, wpc, items, hist, single, deploy, bpc, payload, bres>>

\* the call raised: `except Exception` logs the error and removes the entry
Q_Failure ==
  /\ bpc = "raised"
  /\ qpath = "none"
  /\ qpath' = "failure"
  /\ UNCHANGED <<shared, cpc, carg, wpc, items, hist, single, deploy, bpc, payload, bres>>

BatchNext ==
  \/ \E p \in Payloads(MaxItems) : B_Call(p)
  \/ B_EmptyPool
  \/ \E i \in 1..MaxItems : B_Item(i)
  \/ B_Collect
  \/ Q_Success
  \/ Q_Failure

\* one batch-apply call of the worker, for every payload of up to MaxItems items
BatchSpec == Init /\ [][BatchNext]_vars

\* ------------------------------------------------ main() of deploy_resources.py
\* the enqueues of id so far
EnqueuesOf(id) == SelectSeq(log, LAMBDA e : e.tile_id = id)

\* the main thread of the script
Main == "c1"

\* what main() enqueues, with the one manager it has created: the examples of
\* a new Knowledge Assistant, then those of a new Multi-Agent Supervisor, each
\* when its endpoint was not 'ONLINE' at creation
DeployRequests == [t1 |-> <<"m1", "q1", "KA">>, t2 |-> <<"m1", "q2", "MAS">>]

\* queue.enqueue(ka_tile_id, manager, questions, tile_type='KA') /
\* queue.enqueue(mas_tile_id, manager, questions, tile_type='MAS')
M_Enqueue(id) ==
  /\ mpc = "deploy"
  /\ EnqueuesOf(id) = <<>>
  /\ id = "t1" => log = <<>>
  /\ EnqueueAcquire(Main, id, DeployRequests[id], MaxCalls)

\* queue = get_tile_example_queue(); `if len(queue.queue) > 0:`; with nothing
\* queued main() returns
M_WaitIf ==
  /\ mpc = "deploy"
  /\ cpc[Main] = "idle"
  /\ mpc' = IF Len(queue) > 0 THEN "wait_loop" ELSE "returned"
  /\ UNCHANGED <<shared, cpc, carg, wpc, items, hist, single, batch, mlog>>

\* `while len(queue.queue) > 0:`
M_WaitLoop ==
  /\ mpc = "wait_loop"
  /\ mpc' = IF Len(queue) > 0 THEN "wait_time" ELSE "wait_after"
  /\ UNCHANGED <<shared, cpc, carg, wpc, items, hist, single, batch, mlog>>

\* `if elapsed > max_wait_time:` warn and break, else time.sleep(check_interval);
\* elapsed is read from the clock: over is whether it has passed 1800 s
M_WaitTime(over) ==
  /\ mpc = "wait_time"
  /\ mpc' = IF over THEN "wait_after" ELSE "wait_loop"
  /\ mlog' = IF over THEN mlog \cup {"timeout"} ELSE mlog
  /\ UNCHANGED <<shared, cpc, carg, wpc, items, hist, single, batch>>

\* `if len(queue.queue) == 0: logger.info("All examples processed successfully!")`,
\* then main() returns
M_WaitAfter ==
  /\ mpc = "wait_after"
  /\ mlog' = IF Len(queue) = 0 THEN mlog \cup {"all_processed"} ELSE mlog
  /\ mpc' = "returned"
  /\ UNCHANGED <<shared, cpc, carg, wpc, items, hist, single, batch>>

\* `if __name__ == '__main__': main()`: after main() the interpreter exits;
\* the worker was created with daemon=True, so the exit does not wait for it
\* and the thread ends with the process wherever it is
M_Exit ==
  /\ mpc = "returned"
  /\ mpc' = "exited"
  /\ wpc' = [w \in Workers |-> IF wpc[w] = "unborn" THEN "unborn" ELSE "dead"]
  /\ UNCHANGED <<shared, cpc, carg, items, hist, single, batch, mlog>>

DeployNext ==
  \/ \E id \in TileIds : M_Enqueue(id)
  \/ EnqueueInsert(Main)
  \/ EnqueueCheckRunning(Main)
  \/ StartCheck(Main)
  \/ StartSet(Main)
  \/ StartThread(Main)
  \/ M_WaitIf
  \/ M_WaitLoop
  \/ \E over \in BOOLEAN : M_WaitTime(over)
  \/ M_WaitAfter
  \/ M_Exit
  \/ \E w \in Workers : W_Top(w, Ceiling + 1)
  \/ \E w \in Workers : W_SnapAcquire(w)
  \/ \E w \in Workers : W_Snapshot(w)
  \/ \E w \in Workers : W_ItemAcquire(w)
  \/ \E w \in Workers : W_CeilingDel(w)
  \/ \E w \in Workers : W_Increment(w)
  \/ \E w \in Workers, s \in StatusValues : W_StatusReturn(w, s)
  \/ \E w \in Workers : W_StatusRaise(w)
  \/ \E w \in Workers : W_ApplyReturn(w)
  \/ \E w \in Workers : W_ApplyRaise(w)
  \/ \E w \in Workers : W_SuccessAcquire(w)
  \/ \E w \in Workers : W_SuccessDel(w)
  \/ \E w \in Workers : W_ExceptAcquire(w)
  \/ \E w \in Workers : W_ExceptDel(w)

\* one run of the deployment script: main() and the worker thread its
\* enqueue calls start; main() enqueues 'KA' and 'MAS' entries only, so the
\* worker's unknown-kind branch has no step here
DeploySpec == Init /\ [][DeployNext]_vars

\* ================================================================ claims
\* the batch-apply invocations for id so far
AppliesOf(id) == SelectSeq(applied, LAMBDA a : a.tile_id = id)

\* worker w is at one of pcs with the entry of enqueue_time at as its current item
Handling(w, at, pcs) ==
  /\ wpc[w] \in pcs
  /\ items[w] # <<>>
  /\ Head(items[w]).enqueue_time = at

\* id was enqueued once, with a KA or MAS tile type, and one worker thread
\* has been created: the one background worker processes the one entry
OneEntryOneWorker(id) ==
  /\ Len(EnqueuesOf(id)) = 1
  /\ KnownKind(EnqueuesOf(id)[1].tile_type)
  /\ Created = 1

\* C1: an entry enqueued once and processed by the one worker, whose status
\* check returned 'ONLINE' (necessarily on one of the first 30 polls): the
\* worker is about to invoke batch-apply for it, or has invoked it exactly
\* once, on the manager and with the questions given to enqueue; and once the
\* batch-apply has returned and the worker has passed its removal, the entry
\* is no longer in the mapping.
C1_ReadyAppliedOnce ==
  \A id \in TileIds :
    OneEntryOneWorker(id) =>
      LET e == EnqueuesOf(id)[1]
          calls == AppliesOf(id)
          busy == \E w \in Workers :
                    Handling(w, e.enqueue_time, {"apply", "succ", "succ_locked", "exc", "exc_locked"})
      IN /\ Len(calls) <= 1
         /\ calls # <<>> =>
              /\ e.enqueue_time \in ready
              /\ calls[1].manager = e.manager
              /\ calls[1].questions = e.questions
              /\ calls[1].tile_id = id
         /\ e.enqueue_time \in ready =>
              /\ polls[id] <= Ceiling
              /\ calls = <<>> => \E w \in Workers : Handling(w, e.enqueue_time, {"apply"})
              /\ (calls # <<>> /\ ~busy /\ e.enqueue_time \notin failed) => ~Has(queue, id)

\* C1 witness: PROVISIONING for 3 cycles, ONLINE on the 4th, batch-apply
\* returned, the entry is gone
C1_Witness ==
  \E id \in TileIds :
    /\ OneEntryOneWorker(id)
    /\ polls[id] = 4
    /\ Len(AppliesOf(id)) = 1
    /\ failed = {}
    /\ ~Has(queue, id)
    /\ \A w \in Workers : wpc[w] \in {"unborn", "top"}

C3_FailedNeverRetried ==
  Created = 1 =>
    \A at \in failed :
      /\ \A w \in Workers : ~Handling(w, at, {"status", "apply", "inc_locked"})
      /\ (\A w \in Workers : ~Handling(w, at, {"exc", "exc_locked"})) =>
           \A i \in DOMAIN queue : queue[i].enqueue_time # at

\* C3 witness: a status check raised on an attempt before the 30th, the
\* worker has removed the entry and gone on to a later cycle
C3_Witness ==
  /\ Created = 1
  /\ failed # {}
  /\ applied = <<>>
  /\ queue = <<>>
  /\ \E id \in TileIds : polls[id] = 2
  /\ \E w \in Workers : wpc[w] = "snap_locked"

\* C4 (as claimed): every batch-apply invocation is given the questions of
\* the latest enqueue of its tile: once a tile is enqueued again, the payload
\* queued before is never passed to batch-apply, whatever the interleaving of
\* the second enqueue with the worker's cycle.
C4_StalePayloadNeverApplied ==
  \A k \in DOMAIN applied : applied[k].questions = applied[k].latest.questions

\* the entry of id in mapping q, or <<>> when it has none
EntriesOf(q, id) == SelectSeq(q, LAMBDA e : e.tile_id = id)

\* a step of a worker that holds the lock and writes the entry of id
WorkerWrites(id) ==
  \E w \in Workers :
    /\ wpc[w] \in {"ceil_locked", "inc_locked", "unk_locked", "succ_locked", "exc_locked"}
    /\ wpc'[w] # wpc[w]
    /\ Head(items[w]).tile_id = id

\* a step of a caller that holds the lock and inserts the entry it was given for id
CallerInserts(id) ==
  \E c \in Callers :
    /\ cpc[c] = "enq_insert"
    /\ cpc'[c] # "enq_insert"
    /\ carg[c].tile_id = id
    /\ EntriesOf(queue', id) =
         << Entry(id, carg[c].req[1], carg[c].req[2], carg[c].req[3], Len(log'), 0) >>

\* C5: enqueue calls from several caller threads, while a worker is in the
\* middle of a cycle, lose or corrupt no entry: every tile has at most one
\* entry; the entry of a tile changes only in the insertion of an enqueue for
\* that tile, which leaves it with the manager, questions and tile type of
\* that call and attempt_count 0, or in a worker's step on that same tile.
C5_EnqueueKeepsOtherEntries ==
  [][ \A id \in TileIds :
        /\ Len(EntriesOf(queue', id)) <= 1
        /\ EntriesOf(queue', id) # EntriesOf(queue, id) =>
             CallerInserts(id) \/ WorkerWrites(id) ]_vars

\* C5 witness: two tiles enqueued by the two caller threads, both calls
\* returned, while a worker is inside the status check of the first: the
\* second entry, which is not in the worker's snapshot, is there as enqueued
C5_Witness ==
  /\ Len(log) = 2
  /\ Len(queue) = 2
  /\ nStart = 0
  /\ \A c \in Callers : cpc[c] = "idle"
  /\ \E w \in Workers :
       /\ wpc[w] = "status"
       /\ Len(items[w]) = 1
       /\ \E i \in DOMAIN queue :
            /\ queue[i].tile_id # Head(items[w]).tile_id
            /\ queue[i] = log[2]
            /\ queue[i].attempt_count = 0

\* a step in which worker w makes a status check or a batch-apply for an
\* entry, increments its attempt_count or removes it
Processes(w) ==
  /\ wpc[w] \in {"status", "apply", "inc_locked", "ceil_locked",
                 "unk_locked", "succ_locked", "exc_locked"}
  /\ wpc'[w] # wpc[w]

\* C6 (as claimed): between the return of stop() and the next call of
\* start() or enqueue(), no worker makes a status check, a batch-apply, an
\* attempt_count increment or a removal.
C6_NoProcessingAfterStop ==
  [][ (halted /\ halted') => \A w \in Workers : ~Processes(w) ]_vars

\* C6 (amended): between the return of stop() and the next call of start()
\* or enqueue(), no worker begins another iteration of its loop: its test of
\* self.running fails.
C6_NoNewIterationAfterStop ==
  [][ (halted /\ halted') =>
        \A w \in Workers : ~(wpc[w] = "top" /\ wpc'[w] = "snap") ]_vars

\* C6 witness: stop() returned while the worker was in the middle of a
\* cycle; the worker finished the cycle, found running false and ended, and
\* the entry it had polled is still in the mapping
C6_Witness ==
  /\ halted
  /\ \E w \in Workers : wpc[w] = "dead"
  /\ \E i \in DOMAIN queue : queue[i].attempt_count = 1

\* C7 (as claimed): at most one worker thread is inside _process_loop at any
\* moment, for every sequence of start(), stop() and enqueue() calls.
C7_AtMostOneWorker == Cardinality(Alive) <= 1

\* C8 (as claimed): when the only calls are enqueue calls, from concurrent
\* caller threads on a queue that was not running, exactly one worker thread
\* is created, and every insertion is made by the thread that holds the lock.
C8_OneWorkerForConcurrentEnqueues ==
  /\ \A c \in Callers : cpc[c] = "enq_insert" => lock = c
  /\ (nStart = 0 /\ nStop = 0) => Created <= 1
  /\ (nStart = 0 /\ nStop = 0 /\ log # <<>> /\ \A c \in Callers : cpc[c] = "idle") =>
       Created = 1

\* C9: the loop test of start() on a queue that is running returns at once:
\* no thread is created and running, thread, the mapping and the lock are
\* as they were.
C9_StartIsNoOpWhenRunning ==
  [][ \A c \in Callers :
        (cpc[c] = "start_check" /\ running /\ cpc'[c] # cpc[c]) =>
          /\ cpc'[c] = "idle"
          /\ UNCHANGED <<queue, lock, running, thread, wpc, items>> ]_vars

\* C9 witness: start() was called twice in a row and nothing else: one
\* thread exists and it is the one self.thread names
C9_Witness ==
  /\ nStart = 2
  /\ nStop = 0
  /\ log = <<>>
  /\ \A c \in Callers : cpc[c] = "idle"
  /\ running
  /\ Created = 1
  /\ thread = WorkerSeq[1]

\* the entries of mapping q that come from the enqueue of time at
EntriesAt(q, at) == SelectSeq(q, LAMBDA e : e.enqueue_time = at)

StopOrStartStep ==
  \E c \in Callers :
    \/ cpc[c] = "idle" /\ cpc'[c] \in {"stop_join", "start_check"}
    \/ cpc[c] \in {"stop_join", "start_check", "start_set", "start_thread"} /\ cpc'[c] # cpc[c]

\* resumed entries that are still in the mapping
Pending == {r \in resumed : EntriesAt(queue, r.at) # <<>>}

C11_EnqueueNeverWaitsOnNetwork ==
  /\ [][ ( \/ \E id \in TileIds : polls'[id] > polls[id]
           \/ Len(applied') > Len(applied) ) => cpc' = cpc ]_vars
  /\ \A w \in Workers : (lock = w) ~> (lock # w)
  /\ \A c \in Callers : (cpc[c] # "idle") ~> (cpc[c] = "idle")

\* C11 witness: a caller is inside enqueue, holding the lock for its
\* insertion, while a worker is inside a status check or a batch-apply
C11_Witness ==
  \E c \in Callers, w \in Workers :
    /\ cpc[c] = "enq_insert"
    /\ lock = c
    /\ wpc[w] \in {"status", "apply"}

\* C12 (as claimed): once the enqueue calls have returned and no stop() was
\* called, the queue is running with a worker thread started, and the entry
\* of a tile whose latest enqueue is of kind KA or MAS stays in the mapping
\* until a status check has been made for the tile since that enqueue.
C12_EnqueuedEntryGetsPolled ==
  \A id \in TileIds :
    ( /\ EnqueuesOf(id) # <<>>
      /\ nStop = 0
      /\ \A c \in Callers : cpc[c] = "idle" ) =>
      /\ running
      /\ thread # NoThread
      /\ Alive # {}
      /\ ( polls[id] = 0 /\ KnownKind(log[LatestTime(id)].tile_type) ) =>
           Has(queue, id)

\* C13: an exception raised by the status check or the batch-apply of one
\* entry leaves the mapping and the worker's snapshot as they are; the
\* handler removes the entry of that tile only and every other tile's entry
\* is untouched; the worker then goes on with the next item of the same
\* snapshot (its ceiling test and status check), or, after the last item, to
\* the next cycle: the thread does not end.
C13_FailureIsolatedToEntry ==
  [][ \A w \in Workers :
        /\ ( wpc[w] \in {"status", "apply"} /\ wpc'[w] = "exc" ) =>
             queue' = queue /\ items'[w] = items[w]
        /\ ( wpc[w] = "exc" /\ wpc'[w] # "exc" ) =>
             queue' = queue /\ items'[w] = items[w] /\ wpc'[w] = "exc_locked"
        /\ ( wpc[w] = "exc_locked" /\ wpc'[w] # "exc_locked" ) =>
             /\ \A id \in TileIds \ {Head(items[w]).tile_id} :
                  EntriesOf(queue', id) = EntriesOf(queue, id)
             /\ EntriesOf(queue', Head(items[w]).tile_id) = <<>>
             /\ items'[w] = Tail(items[w])
             /\ wpc'[w] = IF Tail(items[w]) # <<>> THEN "item" ELSE "top" ]_vars

\* C13 witness: the status check or batch-apply of the first of two entries
\* of a snapshot has raised; the worker is in the handler, the second entry
\* is still to be processed in this cycle and is in the mapping
C13_Witness ==
  \E w \in Workers :
    /\ wpc[w] = "exc_locked"
    /\ Len(items[w]) = 2
    /\ Head(items[w]).enqueue_time \in failed
    /\ Has(queue, items[w][2].tile_id)
    /\ items[w][2].tile_id # Head(items[w]).tile_id

\* all enqueues of id so far were of a tile type other than 'KA' and 'MAS'
OnlyUnknownKind(id) ==
  /\ EnqueuesOf(id) # <<>>
  /\ \A k \in DOMAIN EnqueuesOf(id) : EnqueuesOf(id)[k].tile_type \notin {"KA", "MAS"}

\* C14: a worker that has an item of a tile type other than 'KA' and 'MAS' in
\* hand is never in a status check, a batch-apply or what follows them; no
\* batch-apply and no 'ONLINE' or raising status check was ever made from
\* such an entry, and a tile enqueued only with such types has had no status
\* check and no batch-apply at all; and the worker's cycle that takes up such
\* an item goes from the increment to the removal, after which the tile has
\* no entry in the mapping.
C14_UnknownKindRemovedUnpolled ==
  /\ [] ( /\ \A w \in Workers :
               ( items[w] # <<>> /\ Head(items[w]).tile_type \notin {"KA", "MAS"} ) =>
                 wpc[w] \in {"item", "inc_locked", "ceil_locked", "unknown", "unk_locked"}
          /\ \A k \in DOMAIN applied : applied[k].tile_type \in {"KA", "MAS"}
          /\ \A at \in ready \cup failed : log[at].tile_type \in {"KA", "MAS"}
          /\ \A id \in TileIds :
               OnlyUnknownKind(id) => polls[id] = 0 /\ AppliesOf(id) = <<>> )
  /\ [][ \A w \in Workers :
           ( /\ items[w] # <<>>
             /\ Head(items[w]).tile_type \notin {"KA", "MAS"}
             /\ wpc'[w] # wpc[w] ) =>
             /\ wpc[w] = "inc_locked" => wpc'[w] = "unknown"
             /\ wpc[w] = "unknown" => wpc'[w] = "unk_locked" /\ items'[w] = items[w]
             /\ wpc[w] = "unk_locked" =>
                  /\ ~Has(queue', Head(items[w]).tile_id)
                  /\ items'[w] = Tail(items[w]) ]_vars

\* C14 witness: a tile enqueued once, with tile type GENIE; the worker has
\* finished the first cycle that had it: one increment, no status check, no
\* batch-apply, and the entry is gone
C14_Witness ==
  \E id \in TileIds :
    /\ Len(EnqueuesOf(id)) = 1
    /\ OnlyUnknownKind(id)
    /\ Created = 1
    /\ incs[id] = 1
    /\ polls[id] = 0
    /\ AppliesOf(id) = <<>>
    /\ ~Has(queue, id)
    /\ \A w \in Workers : wpc[w] \in {"unborn", "top"}

\* the keys of mapping q
KeysOf(q) == {q[i].tile_id : i \in DOMAIN q}

\* C15: every key of the mapping is a tile id that was passed to enqueue, and
\* a step of a worker thread (a write-back or a removal) never adds a key to
\* the mapping.
C15_NoKeyWithoutEnqueue ==
  /\ [] ( \A id \in KeysOf(queue) : EnqueuesOf(id) # <<>> )
  /\ [][ cpc' = cpc => KeysOf(queue') \subseteq KeysOf(queue) ]_vars

\* C15 witness: one tile was enqueued, written back and removed by the worker,
\* the other tile was never enqueued, and the mapping has no key
C15_Witness ==
  \E id \in TileIds, other \in TileIds :
    /\ EnqueuesOf(id) # <<>>
    /\ EnqueuesOf(other) = <<>>
    /\ incs[id] >= 1
    /\ KeysOf(queue) = {}
    /\ \A w \in Workers : wpc[w] \in {"unborn", "top"}

\* C16: at most one TileExampleQueue is ever constructed, and every value
\* get_tile_example_queue returns is that one object (never None, never a
\* second object), whatever the interleaving of the calls.
C16_SingletonQueue ==
  /\ made <= 1
  /\ returned \subseteq {<<1>>}
  /\ instance \in {<<>>, <<1>>}
  /\ (instance = <<>>) = (made = 0)

\* C16 witness: concurrent first calls: one thread has constructed the object
\* and returned it, another that had found the global None is under the lock
\* at the second test
C16_Witness ==
  \E a \in Getters :
    /\ gpc[a] = "recheck"
    /\ made = 1
    /\ returned = {<<1>>}

\* C17 (as claimed): the batch-apply raises whenever creating an item of the
\* payload failed, and the worker's success path is taken only when an
\* example was created for every item of the payload.
C17_SuccessMeansAllApplied ==
  /\ ( bpc = "returned" => \A i \in DOMAIN payload : payload[i] # "fails" )
  /\ ( qpath = "success" => \A i \in DOMAIN payload : bres[i] = "example" )

\* C18 (as claimed): the attempt_count of every entry is between 0 and 30,
\* and in a step that is not the insertion of an enqueue for its tile the
\* attempt_count of an entry that stays in the mapping does not decrease.
C18_AttemptCountBoundedMonotone ==
  /\ [] ( \A i \in DOMAIN queue :
            queue[i].attempt_count >= 0 /\ queue[i].attempt_count <= Ceiling )
  /\ [][ \A id \in TileIds :
           ( Has(queue, id) /\ Has(queue', id) /\ log' = log ) =>
             Get(queue', id).attempt_count >= Get(queue, id).attempt_count ]_vars

\* C19 (as claimed): no poll cycle of the worker ends with an entry at
\* attempt_count 30 still in the mapping.
C19_NoCycleEndsAtCeiling ==
  \A w \in Workers :
    ( Created = 1 /\ wpc[w] = "top" ) =>
      \A i \in DOMAIN queue : queue[i].attempt_count < Ceiling

\* entries of the mapping whose attempt_count is at the ceiling
AtCeiling == {i \in DOMAIN queue : queue[i].attempt_count = Ceiling}

\* C19 (amended): an entry reaches attempt_count 30 in the write-back of its
\* 30th cycle and, when not ready, stays in the mapping to the end of that
\* cycle; the worker increments or status-checks only items whose snapshot
\* count is below 30, takes the ceiling branch exactly for an item whose
\* snapshot count is 30, and that branch leaves the tile without entry; and
\* an entry at 30 does leave the mapping (in the next cycle at the latest)
\* unless the queue is stopped.
C19_CeilingRemovedNextCycle ==
  /\ [] ( \A w \in Workers :
            /\ wpc[w] = "ceil_locked" => Head(items[w]).attempt_count = Ceiling
            /\ wpc[w] \in {"inc_locked", "status", "apply", "unknown"} =>
                 Head(items[w]).attempt_count < Ceiling )
  /\ [][ \A w \in Workers :
           ( wpc[w] = "ceil_locked" /\ wpc'[w] # "ceil_locked" ) =>
             ~Has(queue', Head(items[w]).tile_id) ]_vars
  /\ (AtCeiling # {}) ~> (AtCeiling = {} \/ ~running)

\* C19 witness: the 30th cycle of a never-ready entry has ended and the entry
\* is still in the mapping with attempt_count 30; the worker, in its 31st
\* cycle, is in the ceiling branch about to remove it
C19_Witness ==
  \E w \in Workers :
    /\ Created = 1
    /\ wpc[w] = "ceil_locked"
    /\ Has(queue, Head(items[w]).tile_id)
    /\ Get(queue, Head(items[w]).tile_id).attempt_count = Ceiling
    /\ polls[Head(items[w]).tile_id] = Ceiling
    /\ ready = {}

\* C20: a worker thread that is inside a status check or a batch-apply does
\* not hold the lock: with the one worker thread, the lock is then free or
\* held by a caller that is inserting in enqueue; and a worker that holds the
\* lock is inside one of its `with self.lock:` blocks, which contain map
\* reads and writes only.
C20_LockNotHeldAcrossNetworkCall ==
  \A w \in Workers :
    /\ wpc[w] \in {"status", "apply"} =>
         /\ lock # w
         /\ Created = 1 =>
              \/ lock = Free
              \/ lock \in Callers /\ cpc[lock] = "enq_insert"
    /\ lock = w =>
         wpc[w] \in {"snap_locked", "ceil_locked", "inc_locked",
                     "unk_locked", "succ_locked", "exc_locked"}

\* C20 witness: the one worker is inside a batch-apply and the lock is free
C20_Witness ==
  \E w \in Workers :
    /\ Created = 1
    /\ wpc[w] = "apply"
    /\ lock = Free
    /\ \A c \in Callers : cpc[c] = "idle"

\* C21: a worker comes to invoke batch-apply only from the status check of
\* the item it has in hand, in the same cycle, and only when that status check
\* has returned exactly 'ONLINE' (with the one worker thread: the first
\* 'ONLINE' seen for that entry); a status check that returns any other value
\* is followed by the next item or the end of the cycle, with no batch-apply;
\* and every batch-apply invocation is made by a worker that is at that point
\* for that entry.
C21_ApplyOnlyAfterOnline ==
  /\ [][ \A w \in Workers :
           /\ ( wpc[w] # "apply" /\ wpc'[w] = "apply" ) =>
                /\ wpc[w] = "status"
                /\ items'[w] = items[w]
                /\ Head(items[w]).enqueue_time \in ready'
                /\ Created = 1 => Head(items[w]).enqueue_time \notin ready
           /\ ( /\ wpc[w] = "status"
                /\ wpc'[w] # "status"
                /\ Head(items[w]).enqueue_time \notin ready' ) =>
                /\ wpc'[w] \in {"item", "top", "exc"}
                /\ applied' = applied ]_vars
  /\ [][ applied' # applied =>
           \E w \in Workers :
             /\ wpc[w] = "apply"
             /\ wpc'[w] # "apply"
             /\ Head(items[w]).enqueue_time \in ready
             /\ applied' = Append(applied, ApplyCall(Head(items[w]))) ]_vars

\* C21 witness: two tiles in one cycle: the status check of one returned
\* 'ONLINE' and batch-apply was invoked for it; the status check of the other
\* returned another value, no batch-apply was invoked for it and its entry is
\* in the mapping
C21_Witness ==
  \E id \in TileIds, other \in TileIds :
    /\ Created = 1
    /\ Len(AppliesOf(id)) = 1
    /\ polls[other] = 1
    /\ AppliesOf(other) = <<>>
    /\ failed = {}
    /\ Cardinality(ready) = 1
    /\ Has(queue, other)
    /\ Get(queue, other).attempt_count = 1
    /\ \A w \in Workers : wpc[w] \in {"unborn", "top"}

\* C22 (as claimed, for the one worker thread): when a status check returns
\* a value other than 'ONLINE', the tile still has its entry, the entry has
\* the manager, questions, tile type and enqueue time it was enqueued with
\* (those of the latest enqueue of the tile), and, when it is the entry the
\* worker took at the start of the cycle, its attempt_count is one more than
\* it was then.
C22_NotReadyKeepsEntry ==
  [][ \A w \in Workers :
        ( /\ Created = 1
          /\ wpc[w] = "status"
          /\ wpc'[w] \in {"item", "top"} ) =>
          LET e == Head(items[w])
              enq == log[LatestTime(e.tile_id)]
          IN /\ queue' = queue
             /\ Has(queue', e.tile_id)
             /\ LET live == Get(queue', e.tile_id)
                IN /\ live.manager = enq.manager
                   /\ live.questions = enq.questions
                   /\ live.tile_type = enq.tile_type
                   /\ live.enqueue_time = enq.enqueue_time
                   /\ live.enqueue_time = e.enqueue_time =>
                        live.attempt_count = e.attempt_count + 1 ]_vars

\* C23 (as claimed): the write-back step of a worker changes nothing but the
\* attempt_count of the live entry of its tile: the manager, questions, tile
\* type and enqueue time stored in the mapping for that tile are after the
\* step what they were before it, also when an enqueue for the tile ran
\* between the worker's snapshot and the step; no other tile's entry changes.
C23_IncrementChangesCountOnly ==
  [][ \A w \in Workers :
        ( wpc[w] = "inc_locked" /\ wpc'[w] # "inc_locked" ) =>
          LET id == Head(items[w]).tile_id
          IN /\ \A other \in TileIds \ {id} : EntriesOf(queue', other) = EntriesOf(queue, other)
             /\ Has(queue', id) = Has(queue, id)
             /\ Has(queue, id) =>
                  /\ Get(queue', id).manager = Get(queue, id).manager
                  /\ Get(queue', id).questions = Get(queue, id).questions
                  /\ Get(queue', id).tile_type = Get(queue, id).tile_type
                  /\ Get(queue', id).enqueue_time = Get(queue, id).enqueue_time ]_vars

\* the function names of kind t: its status accessor and its batch-apply
KindFunctions(t) ==
  IF t = "KA" THEN <<"ka_get_endpoint_status", "ka_add_examples_batch">>
  ELSE <<"mas_get_endpoint_status", "mas_add_examples_batch">>

\* C24: every status check in flight and every batch-apply invocation is for
\* an entry of kind 'KA' or 'MAS', calls the function of that kind (ka_ for
\* 'KA', mas_ for 'MAS'), on the manager and with the tile id (and, for the
\* batch-apply, the questions) of the same enqueue whose kind selected the
\* function; a 'KA' entry is never passed to a mas_ function nor a 'MAS' entry
\* to a ka_ function.
C24_CallsMatchKind ==
  /\ \A w \in Workers :
       wpc[w] = "status" =>
         LET e == Head(items[w])
             enq == log[e.enqueue_time]
             call == StatusCall(e)
         IN /\ enq.tile_type \in {"KA", "MAS"}
            /\ call.fn = KindFunctions(enq.tile_type)[1]
            /\ call.manager = enq.manager
            /\ call.tile_id = enq.tile_id
  /\ \A k \in DOMAIN applied :
       LET call == applied[k]
           enq == log[call.enqueue_time]
       IN /\ enq.tile_type \in {"KA", "MAS"}
          /\ call.fn = KindFunctions(enq.tile_type)[2]
          /\ call.manager = enq.manager
          /\ call.tile_id = enq.tile_id
          /\ call.questions = enq.questions

\* C24 witness: a 'KA' tile and a 'MAS' tile, enqueued with different
\* managers, have both been status-checked and batch-applied
C24_Witness ==
  /\ Len(applied) = 2
  /\ applied[1].tile_type # applied[2].tile_type
  /\ applied[1].manager # applied[2].manager
  /\ applied[1].tile_id # applied[2].tile_id
  /\ \A id \in TileIds : polls[id] = 1

\* a step in which worker w, holding the lock in one of its four removals
\* with an item of tile id in hand, ends that removal, for the reason the
\* branch stands for: the batch-apply of the item returned, the item's
\* attempt_count was at the ceiling, its tile type is unknown, or an exception
\* was caught for it
WorkerRemoves(w, id) ==
  /\ items[w] # <<>>
  /\ Head(items[w]).tile_id = id
  /\ wpc'[w] # wpc[w]
  /\ lock = w
  /\ LET e == Head(items[w])
     IN \/ /\ wpc[w] = "succ_locked"
           /\ e.enqueue_time \in ready
           /\ \E k \in DOMAIN applied : applied[k].enqueue_time = e.enqueue_time
        \/ /\ wpc[w] = "ceil_locked"
           /\ e.attempt_count >= Ceiling
        \/ /\ wpc[w] = "unk_locked"
           /\ e.tile_type \notin {"KA", "MAS"}
        \/ /\ wpc[w] = "exc_locked"
           /\ e.enqueue_time \in failed

\* C25: a step of start() or stop() leaves the mapping as it is; a step of a
\* caller thread changes the mapping only in the insertion of enqueue, and
\* then only the entry of the tile id it was given, removing no key; and a
\* key leaves the mapping only in a step of a worker that ends one of its
\* removals for that tile id, after a batch-apply that returned, at the
\* ceiling, for an unknown tile type or after a caught exception.
C25_OnlyWorkerRemoves ==
  [][ /\ StopOrStartStep => queue' = queue
      /\ cpc' # cpc =>
           /\ KeysOf(queue) \subseteq KeysOf(queue')
           /\ \A id \in TileIds :
                EntriesOf(queue', id) # EntriesOf(queue, id) => CallerInserts(id)
      /\ \A id \in TileIds :
           ( Has(queue, id) /\ ~Has(queue', id) ) =>
             \E w \in Workers : WorkerRemoves(w, id) ]_vars

\* C25 witness: two tiles were enqueued; the worker has removed the entry of
\* one after a caught exception, and the entry of the other, polled once and
\* not ready, is still in the mapping
C25_Witness ==
  \E id \in TileIds, other \in TileIds :
    /\ Len(log) = 2
    /\ Created = 1
    /\ EnqueuesOf(id) # <<>>
    /\ ~Has(queue, id)
    /\ failed # {}
    /\ Has(queue, other)
    /\ Get(queue, other).attempt_count = 1
    /\ \A w \in Workers : wpc[w] \in {"unborn", "top"}

\* C26 (as claimed): a removal by the worker (on success, at the ceiling, for
\* an unknown kind or after an exception) removes only the entry the worker
\* took in its snapshot: when the mapping holds, for the same tile id, an
\* entry of a later enqueue, the removal leaves that entry in the mapping.
C26_RemovesOnlySnapshotEntry ==
  [][ \A w \in Workers :
        ( /\ wpc[w] \in {"ceil_locked", "unk_locked", "succ_locked", "exc_locked"}
          /\ wpc'[w] # wpc[w] ) =>
          LET e == Head(items[w])
          IN ( /\ Has(queue, e.tile_id)
               /\ Get(queue, e.tile_id).enqueue_time > e.enqueue_time ) =>
               EntriesOf(queue', e.tile_id) = EntriesOf(queue, e.tile_id) ]_vars

\* the reasons for which the one entry of id (enqueued at time at, as e) has
\* left the mapping: batch-apply returned, an exception was caught, the tile
\* type is unknown, the ceiling was reached after 30 not-ready status checks
RemovalReasons(id) ==
  LET e == EnqueuesOf(id)[1]
      at == e.enqueue_time
  IN { r \in {"success", "exception", "unknown", "ceiling"} :
         \/ r = "success" /\ AppliesOf(id) # <<>> /\ at \notin failed
         \/ r = "exception" /\ at \in failed
         \/ r = "unknown" /\ ~KnownKind(e.tile_type) /\ incs[id] = 1
         \/ r = "ceiling" /\ KnownKind(e.tile_type) /\ at \notin ready /\ at \notin failed
                          /\ polls[id] = Ceiling /\ incs[id] = Ceiling }

\* id was enqueued once and stop() was not called
EnqueuedOnceNoStop(id) == nStop = 0 /\ Len(EnqueuesOf(id)) = 1

C28_WorkerEndsAfterStop ==
  /\ [][ \A w \in Workers :
           /\ ( wpc[w] # "dead" /\ wpc'[w] = "dead" ) =>
                wpc[w] = "top" /\ items[w] = <<>> /\ ~running /\ lock # w
           /\ ( wpc[w] = "top" /\ wpc'[w] # "top" /\ ~running ) =>
                wpc'[w] = "dead" ]_vars
  /\ \A w \in Workers :
       ( ~running /\ w \in Alive ) ~> ( wpc[w] = "dead" \/ running )

\* C28 witness: stop() was called while the worker was inside a status check;
\* the call returned not-ready, the worker finished the cycle, made the loop
\* test and ended; the entry is still in the mapping and nothing was started
\* since
C28_Witness ==
  /\ nStop = 1
  /\ nStart = 0
  /\ Len(log) = 1
  /\ ~running
  /\ Created = 1
  /\ wpc[WorkerSeq[1]] = "dead"
  /\ \A c \in Callers : cpc[c] = "idle"
  /\ \E i \in DOMAIN queue : queue[i].attempt_count = 2 /\ polls[queue[i].tile_id] = 2

\* C29 (as claimed): main() has logged 'All examples processed successfully!'
\* only if every payload that was enqueued was passed to batch-apply and the
\* batch-apply returned: no enqueued entry left the mapping at the ceiling or
\* through a caught exception.
C29_SuccessMessageMeansAllApplied ==
  "all_processed" \in mlog =>
    \A k \in DOMAIN log :
      /\ \E j \in DOMAIN applied : applied[j].enqueue_time = log[k].enqueue_time
      /\ log[k].enqueue_time \notin failed

\* C30 (as claimed): after the wait loop of main() has timed out with entries
\* still queued and main() has returned, the worker thread is alive as long as
\* an entry is in the mapping, so that the entry is polled again.
C30_QueueGoesOnAfterTimeout ==
  ( /\ "timeout" \in mlog
    /\ mpc \in {"returned", "exited"}
    /\ queue # <<>> ) =>
    \E w \in Workers : w \in Alive

====
